---- MODULE Spec2Model ----
(***************************************************************************)
(* Coordination core of autohealer-bigbrother: ServiceRegistry,            *)
(* HealthMonitor and WebhookHub (src/src/services/v2).                     *)
(*                                                                         *)
(* JavaScript runs every synchronous function to completion, so each       *)
(* synchronous method is one action; an async method is split at each      *)
(* await.  Strings that the code processes character by character (names,  *)
(* sources, event types) are sequences of one-character strings.           *)
(* Date.now() and Math.random() are inputs of the call that reads them.    *)
(***************************************************************************)
EXTENDS Integers, Sequences, FiniteSets, TLC

VARIABLES
    services,       \* ServiceRegistry.services: Map id -> service, in insertion order
    issued,         \* history: every id a successful registerService returned
    ret,            \* the value the last public call returned (or that it threw)
    contention,     \* history: a batch of concurrent registerService calls and their outcomes
    snapshot,       \* the array the last getAllServices call returned, still held by its caller
    monitoring,     \* HealthMonitor.monitoring
    monitoringInterval, \* HealthMonitor.monitoringInterval: whether the field holds a handle,
                    \* and (history) how many setInterval timers are live
    immediates,     \* setImmediate callbacks of startMonitoring not yet run
    cycles,         \* performHealthChecks invocations awaiting Promise.all
    healthData,     \* HealthMonitor.healthData: Map serviceId -> last result
    routes,         \* WebhookHub.routes: Map id -> route, in insertion order
    eventQueue,     \* WebhookHub.eventQueue
    processingQueue,\* WebhookHub.processingQueue
    inflight,       \* processQueue invocations awaiting executeWebhookRoutes
    nextObj,        \* history: number of queue items created so far, plus one
    retired,        \* history: queue items the consumer finished with (delivered or dropped)
    core,           \* the ErrorFixerCore instance, with the FEATURE_FLAGS its module read
    executing,      \* ErrorFixerCore.execute invocations awaiting a fixer's attemptFix
    executed        \* history: execute calls started and returned, and what the last one invoked

regVars == <<services, issued, contention, snapshot>>
monVars == <<monitoring, monitoringInterval, immediates, cycles, healthData>>
hubVars == <<routes, eventQueue, processingQueue, inflight, nextObj, retired>>
fixVars == <<core, executing, executed>>
vars == <<ret, regVars, monVars, hubVars, fixVars>>

\* null / undefined: a string-typed value that is missing
NULL == "null"
\* A nullable field of another type is a sequence: empty, or the one value
None == <<>>
Some(x) == <<x>>
\* No call made yet; a call that threw instead of returning
NoResult == [op |-> "none", kind |-> "none", success |-> FALSE]
Thrown(op) == [op |-> op, kind |-> "thrown", success |-> FALSE]
Failure(op, msg) == [op |-> op, kind |-> "return", success |-> FALSE, error |-> msg]

(***************************************************************************)
(* Bounds of the model.                                                    *)
(***************************************************************************)
MaxCallers == 2
MaxCycles == 2
MaxImmediates == 1
MaxRoutes == 2
MaxEvents == 3
MaxInflight == 2
MaxExecutes == 3

\* Values Date.now() returns, and suffixes Math.random() yields
Times == {1, 2}
Randoms == {"k3x9q", "7fz0a"}

(***************************************************************************)
(* Capacities.  The source sets maxServices = 50 and maxQueueSize = 1000;  *)
(* the model keeps the comparisons and scales the numbers.                 *)
(***************************************************************************)
maxServices == 2
maxQueueSize == 2
RetryLimit == 3

(***************************************************************************)
(* Strings                                                                 *)
(***************************************************************************)
Lower == {"a", "b", "c", "d", "e", "f", "g", "h", "l", "n", "p", "r", "s", "t", "u", "v", "y", "o"}
Digits == {"0", "1", "2", "9"}

ToLowerCase(c) ==
    CASE c = "A" -> "a"
      [] c = "B" -> "b"
      [] OTHER -> c

RECURSIVE RemoveOther(_)
\* s.toLowerCase().replace(/[^a-z0-9]/g, '')
RemoveOther(s) ==
    IF s = <<>> THEN <<>>
    ELSE LET c == ToLowerCase(Head(s))
         IN  (IF c \in Lower \cup Digits THEN <<c>> ELSE <<>>) \o RemoveOther(Tail(s))

\* s.toLowerCase().replace(/[^a-z0-9]/g, '-')
DashOther(s) ==
    [i \in DOMAIN s |->
        LET c == ToLowerCase(s[i]) IN IF c \in Lower \cup Digits THEN c ELSE "-"]

SvcA == <<"s", "v", "c", "A">>
SvcB == <<"s", "v", "c", ".", "b">>

(***************************************************************************)
(* ServiceRegistry                                                         *)
(***************************************************************************)
ServiceTypes == {"core", "api", "middleware", "assistant"}

Cfg(n, t, b) ==
    [name |-> n, type |-> t, url |-> "http://h", version |-> "1.0.0",
     bigBrotherCompliant |-> b]

\* the second config also carries the optional healthEndpoint and capabilities
ValidConfigs ==
    {Cfg(SvcA, "api", FALSE),
     [healthEndpoint |-> "/status", capabilities |-> <<"error-fixing">>]
         @@ Cfg(SvcB, "core", TRUE)}
\* a valid config without the optional compliance flag
UnflaggedConfig ==
    [name |-> SvcA, type |-> "middleware", url |-> "http://m", version |-> "2.0.0",
     healthEndpoint |-> "/healthz", capabilities |-> <<"feature-flags", "error-fixing">>]
\* an empty name, a type outside the enum, a missing url
InvalidConfigs == {Cfg(<<>>, "api", FALSE), Cfg(SvcA, "worker", FALSE),
                   [Cfg(SvcB, "core", TRUE) EXCEPT !.url = NULL]}
\* registerService called with no argument
NoConfig == [undefined |-> TRUE]
Configs == ValidConfigs \cup InvalidConfigs \cup {NoConfig}

\* !x || typeof x !== 'string'
MissingString(x) == x = NULL \/ x = ""

validateServiceConfigAnyType(config) ==
    LET errors ==
            (IF config.name = <<>> THEN <<"Service name is required">> ELSE <<>>)
         \o (IF MissingString(config.url) THEN <<"Service URL is required">> ELSE <<>>)
         \o (IF config.type = NULL THEN <<"Valid service type is required">> ELSE <<>>)
         \o (IF MissingString(config.version) THEN <<"Service version is required">> ELSE <<>>)
    IN  [isValid |-> Len(errors) = 0, errors |-> errors]

validateServiceConfig(config) ==
    LET errors ==
            (IF config.name = <<>> THEN <<"Service name is required">> ELSE <<>>)
         \o (IF MissingString(config.url) THEN <<"Service URL is required">> ELSE <<>>)
         \o (IF config.type = NULL \/ config.type \notin ServiceTypes
             THEN <<"Valid service type is required">> ELSE <<>>)
         \o (IF MissingString(config.version) THEN <<"Service version is required">> ELSE <<>>)
    IN  [isValid |-> Len(errors) = 0, errors |-> errors]

generateServiceId(serviceName, timestamp, random) ==
    <<"bb", DashOther(serviceName), timestamp, random>>

\* Map.prototype.has / get
MapHas(m, id) == \E i \in DOMAIN m : m[i].id = id
MapGet(m, id) == m[CHOOSE i \in DOMAIN m : m[i].id = id]

\* Map.prototype.set: an existing key keeps its place, a new key goes last
MapSet(m, id, v) ==
    IF MapHas(m, id)
    THEN [i \in DOMAIN m |-> IF m[i].id = id THEN v ELSE m[i]]
    ELSE Append(m, v)

\* Map.prototype.delete
MapDelete(m, id) == SelectSeq(m, LAMBDA s : s.id # id)

Ids(m) == {m[i].id : i \in DOMAIN m}

AtCapacityOffByOne(size) == size > maxServices
AtCapacityNever(size) == FALSE

\* this.services.size >= this.maxServices
AtCapacity(size) == size >= maxServices

NewServiceKnownFieldsOnly(config, id, t) ==
    [id |-> id, name |-> config.name, type |-> config.type, url |-> config.url,
     version |-> config.version,
     bigBrotherCompliant |-> IF "bigBrotherCompliant" \in DOMAIN config
                             THEN config.bigBrotherCompliant ELSE FALSE,
     registeredAt |-> t, lastHealthCheck |-> None, status |-> "registered",
     healthData |-> None]

\* { ...serviceConfig, id, registeredAt, lastHealthCheck: null, status,
\*   bigBrotherCompliant: serviceConfig.bigBrotherCompliant || false }
\* healthData is the property updateServiceStatus adds later: None until then
NewService(config, id, t) ==
    [id |-> id, registeredAt |-> t, lastHealthCheck |-> None, status |-> "registered",
     bigBrotherCompliant |-> IF "bigBrotherCompliant" \in DOMAIN config
                             THEN config.bigBrotherCompliant \/ FALSE ELSE FALSE,
     healthData |-> None] @@ config

\* An array a caller holds is a sequence of references to service objects:
\* value is the object's content, attached whether the object is still the
\* one the Map holds under its id.  After a registry operation the attached
\* entries show the object as the operation left it; the objects of the ids
\* in gone were replaced in the Map or deleted from it, and keep their content
Resync(snap, m, gone) ==
    [k \in DOMAIN snap |->
        IF ~snap[k].attached THEN snap[k]
        ELSE IF snap[k].value.id \in gone THEN [snap[k] EXCEPT !.attached = FALSE]
        ELSE [snap[k] EXCEPT !.value = MapGet(m, snap[k].value.id)]]

registerService(serviceConfig, t, random) ==
    /\ IF serviceConfig = NoConfig
       THEN \* validateServiceConfig reads config.name: TypeError, caught; the
            \* catch block reads serviceConfig.name and throws again
            /\ ret' = Thrown("registerService")
            /\ UNCHANGED <<services, issued, snapshot>>
       ELSE IF ~validateServiceConfig(serviceConfig).isValid
       THEN /\ ret' = Failure("registerService", "Invalid service config")
            /\ UNCHANGED <<services, issued, snapshot>>
       ELSE IF AtCapacity(Len(services))
       THEN /\ ret' = Failure("registerService", "Service registry at capacity")
            /\ UNCHANGED <<services, issued, snapshot>>
       ELSE LET id == generateServiceId(serviceConfig.name, t, random)
            IN  /\ services' = MapSet(services, id, NewService(serviceConfig, id, t))
                /\ issued' = issued \cup {id}
                /\ snapshot' = Resync(snapshot, services', {id})
                /\ ret' = [op |-> "registerService", kind |-> "return",
                           success |-> TRUE, serviceId |-> id]
    /\ UNCHANGED <<monVars, hubVars, fixVars>>

StatusUpdatedOverwrites(m, serviceId, status, hd, t) ==
    IF ~MapHas(m, serviceId) THEN m
    ELSE LET s == MapGet(m, serviceId)
             u == [s EXCEPT !.status = status, !.lastHealthCheck = Some(t),
                            !.healthData = hd]
         IN  MapSet(m, serviceId, u)

StatusUpdatedUpserts(m, serviceId, status, hd, t) ==
    IF ~MapHas(m, serviceId)
    THEN Append(m, [id |-> serviceId, status |-> status, lastHealthCheck |-> Some(t),
                    healthData |-> hd])
    ELSE LET s == MapGet(m, serviceId)
             u == [s EXCEPT !.status = status, !.lastHealthCheck = Some(t),
                            !.healthData = IF hd # None THEN hd ELSE @]
         IN  MapSet(m, serviceId, u)

\* The registry after updateServiceStatus(serviceId, status, healthData) at time t
StatusUpdated(m, serviceId, status, hd, t) ==
    IF ~MapHas(m, serviceId) THEN m
    ELSE LET s == MapGet(m, serviceId)
             u == [s EXCEPT !.status = status, !.lastHealthCheck = Some(t),
                            !.healthData = IF hd # None THEN hd ELSE @]
         IN  MapSet(m, serviceId, u)

updateServiceStatus(serviceId, status, hd, t) ==
    /\ services' = StatusUpdated(services, serviceId, status, hd, t)
    /\ ret' = IF MapHas(services, serviceId)
              THEN [op |-> "updateServiceStatus", kind |-> "return", success |-> TRUE,
                    service |-> serviceId]
              ELSE Failure("updateServiceStatus", "Service not found")
    /\ snapshot' = Resync(snapshot, services', {})
    /\ UNCHANGED <<issued, contention, monVars, hubVars, fixVars>>

unregisterServiceKeepsEntry(serviceId) ==
    /\ IF MapHas(services, serviceId)
       THEN ret' = [op |-> "unregisterService", kind |-> "return", success |-> TRUE,
                    removedService |-> MapGet(services, serviceId)]
       ELSE ret' = Failure("unregisterService", "Service not found")
    /\ UNCHANGED <<services, snapshot, issued, contention, monVars, hubVars, fixVars>>

unregisterService(serviceId) ==
    /\ IF MapHas(services, serviceId)
       THEN /\ services' = MapDelete(services, serviceId)
            /\ snapshot' = Resync(snapshot, services', {serviceId})
            /\ ret' = [op |-> "unregisterService", kind |-> "return", success |-> TRUE,
                       removedService |-> MapGet(services, serviceId)]
       ELSE /\ ret' = Failure("unregisterService", "Service not found")
            /\ UNCHANGED <<services, snapshot>>
    /\ UNCHANGED <<issued, contention, monVars, hubVars, fixVars>>

UnknownId == <<"bb", <<"x">>, 1, "k3x9q">>

\* this.services.get(serviceId) || null
Lookup(m, serviceId) == IF MapHas(m, serviceId) THEN Some(MapGet(m, serviceId)) ELSE None

getService(serviceId) ==
    /\ ret' = [op |-> "getService", kind |-> "return", success |-> MapHas(services, serviceId),
               value |-> Lookup(services, serviceId)]
    /\ UNCHANGED <<regVars, monVars, hubVars, fixVars>>

\* Array.from(this.services.values()): a new array of the Map's own objects
getAllServices ==
    /\ snapshot' = [i \in DOMAIN services |-> [value |-> services[i], attached |-> TRUE]]
    /\ ret' = [op |-> "getAllServices", kind |-> "return", success |-> TRUE,
               length |-> Len(services)]
    /\ UNCHANGED <<services, issued, contention, monVars, hubVars, fixVars>>

\* this.getAllServices().filter(service => service.type === type)
getServicesByType(type) == SelectSeq(services, LAMBDA service : service.type = type)

\* this.getAllServices().filter(service => service.bigBrotherCompliant === true)
getBigBrotherServices == SelectSeq(services, LAMBDA service : service.bigBrotherCompliant = TRUE)

\* The object ServiceRegistry.getStats returns; complianceRate, a percentage
\* with one decimal, is kept as its number of tenths
ServiceRegistryStats ==
    LET n == Len(services)
        bb == Len(getBigBrotherServices)
    IN  [totalServices |-> n,
         bigBrotherCompliant |-> bb,
         complianceRate |-> IF n > 0 THEN (2000 * bb + n) \div (2 * n) ELSE 0,
         serviceTypes |-> [core |-> Len(getServicesByType("core")),
                           api |-> Len(getServicesByType("api")),
                           middleware |-> Len(getServicesByType("middleware")),
                           assistant |-> Len(getServicesByType("assistant"))],
         healthyServices |-> Len(SelectSeq(services, LAMBDA s : s.status = "healthy")),
         capacity |-> [used |-> n, max |-> maxServices, available |-> maxServices - n]]

\* A call of a read-only method: it returns value and writes nothing
Returns(op, value) ==
    /\ ret' = [op |-> op, kind |-> "return", success |-> TRUE, value |-> value]
    /\ UNCHANGED <<regVars, monVars, hubVars, fixVars>>

GetServicesByType == \E type \in ServiceTypes : Returns("getServicesByType", getServicesByType(type))
GetBigBrotherServices == Returns("getBigBrotherServices", getBigBrotherServices)
ServiceRegistryGetStats == Returns("ServiceRegistry.getStats", ServiceRegistryStats)

(***************************************************************************)
(* HealthMonitor                                                           *)
(***************************************************************************)
\* What one probe (axios.get with validateStatus: status < 500) can end in:
\* a response with a status below 500 and a body, or an exception (timeout,
\* refused connection, a status of 500 or more)
Response(http, body) == [kind |-> "response", http |-> http, body |-> body]
ProbeError == [kind |-> "error", http |-> 0, body |-> NULL]
ProbeOutcomes == {Response(200, "ok"), Response(200, "healthy"), Response(200, "fail"),
                  Response(404, "ok"), ProbeError}

\* The status checkServiceHealth gives a probe
HealthStatus(outcome) ==
    IF outcome.kind = "error" THEN "error"
    ELSE IF outcome.http = 200 /\ outcome.body \in {"ok", "healthy"} THEN "healthy"
    ELSE "unhealthy"

HealthResult(serviceId, status, t) ==
    [serviceId |-> serviceId, status |-> status, timestamp |-> t]

Pending == [serviceId |-> UnknownId, status |-> "pending", timestamp |-> 0]

RemoveAt(q, i) == SubSeq(q, 1, i - 1) \o SubSeq(q, i + 1, Len(q))

performHealthChecksBeginProbesNone(stale) ==
    /\ cycles' = Append(cycles,
           [snap |-> [i \in DOMAIN services |-> services[i].id],
            results |-> [i \in DOMAIN services |-> Pending],
            stale |-> stale, overtaken |-> {}])
    /\ UNCHANGED ret

\* performHealthChecks up to its await: the snapshot of the registry and one
\* probe per service of it.  stale is history: stop() ran since the cycle was
\* started or scheduled.  overtaken is history, kept by CycleDoneInOrder: the
\* services of which a cycle started later has already written its result to
\* the registry.
performHealthChecksBegin(stale) ==
    IF Len(services) = 0
    THEN /\ ret' = [op |-> "performHealthChecks", kind |-> "return", success |-> TRUE,
                    message |-> "No services to monitor"]
         /\ UNCHANGED cycles
    ELSE /\ cycles' = Append(cycles,
                [snap |-> [i \in DOMAIN services |-> services[i].id],
                 results |-> [i \in DOMAIN services |-> Pending],
                 stale |-> stale, overtaken |-> {}])
         /\ UNCHANGED ret

\* No timer was created, or the one created was cleared
NoInterval == [handle |-> FALSE, live |-> 0]

startMonitoringUnguarded ==
    /\ Len(immediates) < MaxImmediates
    /\ monitoringInterval.live < 2
    /\ monitoring' = TRUE
    /\ immediates' = Append(immediates, FALSE)
    /\ monitoringInterval' = [handle |-> TRUE, live |-> monitoringInterval.live + 1]
    /\ UNCHANGED <<ret, regVars, cycles, healthData, hubVars, fixVars>>

startMonitoring ==
    /\ IF monitoring
       THEN UNCHANGED <<monitoring, immediates, monitoringInterval>>
       ELSE /\ Len(immediates) < MaxImmediates
            /\ monitoring' = TRUE
            /\ immediates' = Append(immediates, FALSE)
            /\ monitoringInterval' =
                    [handle |-> TRUE, live |-> monitoringInterval.live + 1]
    /\ UNCHANGED <<ret, regVars, cycles, healthData, hubVars, fixVars>>

\* clearInterval stops the timer the field refers to, and only that one
stopMonitoring ==
    /\ monitoringInterval' =
            IF monitoringInterval.handle
            THEN [handle |-> FALSE, live |-> monitoringInterval.live - 1]
            ELSE monitoringInterval
    /\ monitoring' = FALSE
    /\ immediates' = [i \in DOMAIN immediates |-> TRUE]
    /\ cycles' = [c \in DOMAIN cycles |-> [cycles[c] EXCEPT !.stale = TRUE]]
    /\ UNCHANGED <<ret, regVars, healthData, hubVars, fixVars>>

\* The setImmediate callback of startMonitoring
RunImmediate ==
    /\ Len(immediates) > 0
    /\ Len(cycles) < MaxCycles
    /\ immediates' = Tail(immediates)
    /\ performHealthChecksBegin(Head(immediates))
    /\ UNCHANGED <<regVars, monitoring, monitoringInterval, healthData, hubVars, fixVars>>

\* The setInterval callback of startMonitoring
IntervalTick ==
    /\ monitoringInterval.live > 0
    /\ Len(cycles) < MaxCycles
    /\ performHealthChecksBegin(FALSE)
    /\ UNCHANGED <<regVars, monitoring, monitoringInterval, immediates, healthData, hubVars, fixVars>>

\* POST /health/check calls performHealthChecks itself
ManualHealthCheck ==
    /\ Len(cycles) < MaxCycles
    /\ performHealthChecksBegin(FALSE)
    /\ UNCHANGED <<regVars, monitoring, monitoringInterval, immediates, healthData, hubVars, fixVars>>

\* One probe of cycle c ends: checkServiceHealth builds the result and stores it
checkServiceHealth(c, i, outcome, t) ==
    LET serviceId == cycles[c].snap[i]
        result == HealthResult(serviceId, HealthStatus(outcome), t)
    IN  /\ cycles[c].results[i] = Pending
        /\ cycles' = [cycles EXCEPT ![c].results[i] = result]
        /\ healthData' = MapSet(healthData, serviceId, [id |-> serviceId, result |-> result])
        /\ UNCHANGED <<ret, regVars, monitoring, monitoringInterval, immediates, hubVars, fixVars>>

\* The cycles in start order, after cycle c has written its results to the
\* registry m: the cycles started before it are overtaken on the services
\* that c wrote
Overtake(cs, c, m) ==
    [b \in DOMAIN cs |->
        IF b < c
        THEN [cs[b] EXCEPT !.overtaken =
                 @ \cup {cs[c].snap[i] : i \in {j \in DOMAIN cs[c].snap : MapHas(m, cs[c].snap[j])}}]
        ELSE cs[b]]

RECURSIVE CommitResults(_, _, _)
\* results.forEach(result => updateServiceStatus(result.serviceId, result.status, result))
CommitResults(m, results, t) ==
    IF results = <<>> THEN m
    ELSE LET r == Head(results)
         IN  CommitResults(StatusUpdated(m, r.serviceId, r.status, Some(r), t),
                           Tail(results), t)

performHealthChecksEndEarly(c, t) ==
    LET results == SelectSeq(cycles[c].results, LAMBDA r : r.status # "pending")
    IN  /\ services' = CommitResults(services, results, t)
        /\ cycles' = RemoveAt(cycles, c)
        /\ ret' = [op |-> "performHealthChecks", kind |-> "return", success |-> TRUE,
                   totalServices |-> Len(results),
                   healthyServices |->
                       Cardinality({i \in DOMAIN results : results[i].status = "healthy"})]
        /\ snapshot' = Resync(snapshot, services', {})
        /\ UNCHANGED <<issued, contention, monitoring, monitoringInterval, immediates,
                       healthData, hubVars, fixVars>>

performHealthChecksEndAbortsOnError(c, t) ==
    LET results == cycles[c].results
    IN  /\ \A i \in DOMAIN results : results[i] # Pending
        /\ cycles' = RemoveAt(cycles, c)
        /\ IF \E i \in DOMAIN results : results[i].status = "error"
           THEN /\ ret' = Failure("performHealthChecks", "probe failed")
                /\ UNCHANGED services
           ELSE /\ services' = CommitResults(services, results, t)
                /\ ret' = [op |-> "performHealthChecks", kind |-> "return",
                           success |-> TRUE, totalServices |-> Len(results),
                           healthyServices |-> Len(results)]
        /\ snapshot' = Resync(snapshot, services', {})
        /\ UNCHANGED <<issued, contention, monitoring, monitoringInterval, immediates,
                       healthData, hubVars, fixVars>>

performHealthChecksEndPrunes(c, t) ==
    LET results == cycles[c].results
        dead == {results[i].serviceId : i \in {j \in DOMAIN results : results[j].status = "error"}}
    IN  /\ \A i \in DOMAIN results : results[i] # Pending
        /\ services' = SelectSeq(CommitResults(services, results, t),
                                 LAMBDA s : s.id \notin dead)
        /\ cycles' = RemoveAt(cycles, c)
        /\ ret' = [op |-> "performHealthChecks", kind |-> "return", success |-> TRUE,
                   totalServices |-> Len(results),
                   healthyServices |->
                       Cardinality({i \in DOMAIN results : results[i].status = "healthy"})]
        /\ snapshot' = Resync(snapshot, services', dead)
        /\ UNCHANGED <<issued, contention, monitoring, monitoringInterval, immediates,
                       healthData, hubVars, fixVars>>

\* performHealthChecks after its await: Promise.all has every result; rest
\* are the invocations still awaiting theirs
performHealthChecksCommit(c, t, rest) ==
    LET results == cycles[c].results
    IN  /\ \A i \in DOMAIN results : results[i] # Pending
        /\ services' = CommitResults(services, results, t)
        /\ cycles' = rest
        /\ ret' = [op |-> "performHealthChecks", kind |-> "return", success |-> TRUE,
                   totalServices |-> Len(results),
                   healthyServices |->
                       Cardinality({i \in DOMAIN results : results[i].status = "healthy"})]
        /\ snapshot' = Resync(snapshot, services', {})
        /\ UNCHANGED <<issued, contention, monitoring, monitoringInterval, immediates,
                       healthData, hubVars, fixVars>>

performHealthChecksEnd(c, t) == performHealthChecksCommit(c, t, RemoveAt(cycles, c))

ProbeDone(O, T) ==
    \E c \in DOMAIN cycles : \E i \in DOMAIN cycles[c].snap : \E o \in O, t \in T :
        checkServiceHealth(c, i, o, t)
CycleDone(T) == \E c \in DOMAIN cycles, t \in T : performHealthChecksEnd(c, t)
\* The same step, with the history of which cycle wrote before which
CycleDoneInOrder(T) ==
    \E c \in DOMAIN cycles, t \in T :
        performHealthChecksCommit(c, t, RemoveAt(Overtake(cycles, c, services), c))

\* The latest timestamp among the stored results, or null
getLastCheckTime ==
    IF healthData = <<>> THEN None
    ELSE Some(CHOOSE t \in {healthData[i].result.timestamp : i \in DOMAIN healthData} :
                 \A i \in DOMAIN healthData : healthData[i].result.timestamp <= t)

\* The object getSystemHealth returns, over the registry's services and the
\* monitor's stored results
SystemHealth ==
    LET count(status) ==
            Cardinality({i \in DOMAIN healthData : healthData[i].result.status = status})
    IN  [monitoring |-> monitoring,
         lastCheck |-> getLastCheckTime,
         stats |-> [totalServices |-> Len(services),
                    healthyServices |-> count("healthy"),
                    unhealthyServices |-> count("unhealthy"),
                    errorServices |-> count("error")],
         services |-> [i \in DOMAIN healthData |->
                          [serviceId |-> healthData[i].result.serviceId,
                           status |-> healthData[i].result.status,
                           timestamp |-> healthData[i].result.timestamp]]]

getSystemHealthPrunes ==
    /\ ret' = [op |-> "getSystemHealth", kind |-> "return", success |-> TRUE,
               value |-> SystemHealth]
    /\ healthData' = SelectSeq(healthData, LAMBDA h : MapHas(services, h.id))
    /\ UNCHANGED <<regVars, monitoring, monitoringInterval, immediates, cycles, hubVars, fixVars>>

getSystemHealth == Returns("getSystemHealth", SystemHealth)

(***************************************************************************)
(* ErrorFixerCore.  execute is an async method that awaits the             *)
(* deterministic fixer and then the AI fixer; an invocation is suspended   *)
(* at each await, and other invocations run meanwhile.  Its argument is    *)
(* the data validateInput accepted.                                        *)
(***************************************************************************)
\* What awaiting fixer.attemptFix(...) gives: a result with success true, a
\* result with success false, or an Error (thrown, the reason of a rejection,
\* or the TypeError of reading .success of a missing result)
FixerOutcomes == {"success", "failure", "throws"}

\* new ErrorFixerCore(deterministicFixer, aiFixer) in a process whose
\* environment gave FEATURE_FLAGS these values; a fixer argument is an object
\* (TRUE) or is left out (FALSE)
ErrorFixerCoreNew(flags, deterministicFixer, aiFixer) ==
    /\ core = None
    /\ core' = Some([FEATURE_FLAGS |-> flags,
                     deterministicFixer |-> deterministicFixer,
                     aiFixer |-> aiFixer,
                     stats |-> [deterministicFixes |-> 0, aiFixes |-> 0, failures |-> 0]])
    /\ UNCHANGED <<ret, regVars, monVars, hubVars, executing, executed>>

\* formatResponse(result): the result under version v2 with a copy of the
\* counters (the timestamp is left out)
formatResponse(result, stats) ==
    [op |-> "execute", kind |-> "return", version |-> "v2",
     result |-> result, stats |-> stats]

\* execute reaches an await: the invocation is suspended on that fixer
executeSuspends(rest, started, invoked, fixer) ==
    /\ executing' = Append(rest, [awaiting |-> fixer, invoked |-> invoked])
    /\ executed' = [executed EXCEPT !.started = started]
    /\ UNCHANGED <<core, ret>>

\* this.stats[counter]++ followed by return this.formatResponse(result)
executeReturns(rest, started, invoked, counter, result) ==
    LET stats == [core[1].stats EXCEPT ![counter] = @ + 1]
    IN  /\ executing' = rest
        /\ core' = Some([core[1] EXCEPT !.stats = stats])
        /\ executed' = [started |-> started, returned |-> executed.returned + 1,
                        invoked |-> invoked]
        /\ ret' = formatResponse(result, stats)

handleErrorUncounted(rest, started, invoked) ==
    /\ executing' = rest
    /\ core' = core
    /\ executed' = [started |-> started, returned |-> executed.returned + 1,
                    invoked |-> invoked]
    /\ ret' = formatResponse([success |-> FALSE,
                              error |-> "Internal error during fix attempt",
                              code |-> "EXECUTION_FAILED"], core[1].stats)

\* The catch block of execute: handleError(error)
handleError(rest, started, invoked) ==
    executeReturns(rest, started, invoked, "failures",
                   [success |-> FALSE, error |-> "Internal error during fix attempt",
                    code |-> "EXECUTION_FAILED"])

\* execute from "Fallback to AI if deterministic fails" on
executeFallback(rest, started, invoked) ==
    IF core[1].FEATURE_FLAGS.AI_FALLBACK_ENABLED /\ core[1].aiFixer
    THEN executeSuspends(rest, started, invoked, "aiFixer")
    ELSE executeReturns(rest, started, invoked, "failures",
                        [success |-> FALSE, reason |-> "No applicable fix found"])

\* execute(validatedData) up to its first await, or to its return when it
\* awaits nothing; calling attemptFix of a fixer that was left out throws
execute ==
    /\ core # None
    /\ executed.started < MaxExecutes
    /\ Len(executing) < MaxCallers
    /\ IF core[1].FEATURE_FLAGS.DETERMINISTIC_FIXES_ENABLED
       THEN IF core[1].deterministicFixer
            THEN executeSuspends(executing, executed.started + 1, <<>>,
                                 "deterministicFixer")
            ELSE handleError(executing, executed.started + 1, <<>>)
       ELSE executeFallback(executing, executed.started + 1, <<>>)
    /\ UNCHANGED <<regVars, monVars, hubVars>>

\* execute after an await: the fixer's attemptFix settled with the outcome
executeResume(i, outcome) ==
    LET call == executing[i]
        rest == RemoveAt(executing, i)
        invoked == Append(call.invoked, [fixer |-> call.awaiting, outcome |-> outcome])
    IN  /\ IF outcome = "throws"
           THEN handleError(rest, executed.started, invoked)
           ELSE IF outcome = "success"
           THEN IF call.awaiting = "deterministicFixer"
                THEN executeReturns(rest, executed.started, invoked, "deterministicFixes",
                                    [success |-> TRUE, fixType |-> "deterministic"])
                ELSE executeReturns(rest, executed.started, invoked, "aiFixes",
                                    [success |-> TRUE, fixType |-> "ai"])
           ELSE IF call.awaiting = "deterministicFixer"
           THEN executeFallback(rest, executed.started, invoked)
           ELSE executeReturns(rest, executed.started, invoked, "failures",
                               [success |-> FALSE, reason |-> "No applicable fix found"])
        /\ UNCHANGED <<regVars, monVars, hubVars>>

ExecuteResumeIn(O) == \E i \in DOMAIN executing, outcome \in O : executeResume(i, outcome)

(***************************************************************************)
(* WebhookHub                                                              *)
(***************************************************************************)
Star == <<"*">>
Render == <<"r", "e", "n", "d", "e", "r">>
Github == <<"g", "i", "t", "h", "u", "b">>
DeployFailed == <<"d", "e", "p", "l", "o", "y", "_", "f", "a", "i", "l", "e", "d">>
DeploySuccess == <<"d", "e", "p", "l", "o", "y", "_", "s", "u", "c", "c", "e", "s", "s">>

RouteCfg(src, evt, target, method) ==
    [source |-> src, eventType |-> evt, target |-> target, endpoint |-> "/fix",
     method |-> method]

ValidRouteConfigs ==
    {RouteCfg(Render, DeployFailed, SvcA, "POST"),
     RouteCfg(Star, DeployFailed, SvcB, "POST"),
     RouteCfg(Render, Star, SvcA, "PUT")}
\* a method outside the enum, an empty source
InvalidRouteConfigs ==
    {RouteCfg(Render, DeployFailed, SvcA, "PATCH"), RouteCfg(<<>>, DeployFailed, SvcA, "POST")}
RouteConfigs == ValidRouteConfigs \cup InvalidRouteConfigs \cup {NoConfig}

validateRouteConfig(config) ==
    LET errors ==
            (IF config.source = <<>> THEN <<"Route source is required">> ELSE <<>>)
         \o (IF config.eventType = <<>> THEN <<"Event type is required">> ELSE <<>>)
         \o (IF config.target = <<>> THEN <<"Target service is required">> ELSE <<>>)
         \o (IF MissingString(config.endpoint) THEN <<"Target endpoint is required">> ELSE <<>>)
         \o (IF config.method = NULL \/ config.method \notin {"GET", "POST", "PUT", "DELETE"}
             THEN <<"Valid HTTP method is required">> ELSE <<>>)
    IN  [isValid |-> Len(errors) = 0, errors |-> errors]

generateRouteId(config, timestamp) ==
    <<"route", RemoveOther(config.source), RemoveOther(config.eventType),
      RemoveOther(config.target), timestamp>>

addRoute(routeConfig, t) ==
    /\ IF routeConfig = NoConfig
       THEN \* validateRouteConfig reads config.source: TypeError, caught
            /\ ret' = Failure("addRoute", "TypeError")
            /\ UNCHANGED routes
       ELSE IF ~validateRouteConfig(routeConfig).isValid
       THEN /\ ret' = Failure("addRoute", "Invalid route config")
            /\ UNCHANGED routes
       ELSE LET routeId == generateRouteId(routeConfig, t)
                route == [id |-> routeId, source |-> routeConfig.source,
                          eventType |-> routeConfig.eventType,
                          target |-> routeConfig.target,
                          endpoint |-> routeConfig.endpoint,
                          method |-> routeConfig.method,
                          createdAt |-> t, active |-> TRUE]
            IN  /\ MapHas(routes, routeId) \/ Len(routes) < MaxRoutes
                /\ routes' = MapSet(routes, routeId, route)
                /\ ret' = [op |-> "addRoute", kind |-> "return", success |-> TRUE,
                           routeId |-> routeId]
    /\ UNCHANGED <<regVars, monVars, fixVars, eventQueue, processingQueue, inflight, nextObj, retired>>

\* Webhook payloads: source and eventType; an empty one is missing
Webhook(src, evt) == [source |-> src, eventType |-> evt]
Webhooks ==
    {Webhook(Render, DeployFailed), Webhook(Github, DeployFailed),
     Webhook(Render, DeploySuccess), Webhook(Github, DeploySuccess)}
BadWebhooks == {Webhook(<<>>, DeployFailed), Webhook(Render, <<>>)}

RouteMatchesEither(route, webhookData) ==
    /\ route.active
    /\ \/ route.source = Star \/ route.source = webhookData.source
       \/ route.eventType = Star \/ route.eventType = webhookData.eventType

\* The filter predicate of findMatchingRoutes
RouteMatches(route, webhookData) ==
    IF ~route.active THEN FALSE
    ELSE LET sourceMatch == route.source = Star \/ route.source = webhookData.source
             eventMatch == route.eventType = Star \/ route.eventType = webhookData.eventType
         IN  sourceMatch /\ eventMatch

findMatchingRoutesAll(webhookData) == routes

findMatchingRoutes(webhookData) ==
    SelectSeq(routes, LAMBDA route : RouteMatches(route, webhookData))

addToQueueDropNewest(queue, queueItem) ==
    IF Len(queue) >= maxQueueSize THEN queue ELSE Append(queue, queueItem)

\* The event queue after addToQueue(queueItem)
addToQueue(queue, queueItem) ==
    Append(IF Len(queue) >= maxQueueSize THEN Tail(queue) ELSE queue, queueItem)

generateEventId(timestamp, random) == <<"evt", timestamp, random>>

processWebhookDeliversInline(webhookData, t, random) ==
    LET matchingRoutes == SelectSeq(routes, LAMBDA route :
            /\ route.source = Star \/ route.source = webhookData.source
            /\ route.eventType = Star \/ route.eventType = webhookData.eventType)
        queueItem == [id |-> <<"evt", t, random>>, webhook |-> webhookData,
                      routes |-> matchingRoutes, createdAt |-> t, attempts |-> 0,
                      obj |-> nextObj, run |-> None]
    IN  /\ webhookData # [undefined |-> TRUE]
        /\ webhookData.source # <<>> /\ webhookData.eventType # <<>>
        /\ Len(matchingRoutes) > 0
        /\ nextObj <= MaxEvents
        /\ Len(inflight) < MaxInflight
        /\ inflight' = Append(inflight, queueItem)
        /\ nextObj' = nextObj + 1
        /\ ret' = [op |-> "processWebhook", kind |-> "return", success |-> TRUE,
                   eventId |-> queueItem.id, routesMatched |-> Len(matchingRoutes)]
        /\ UNCHANGED <<regVars, monVars, fixVars, routes, eventQueue, processingQueue, retired>>

\* obj and run are history: the identity of the queue item object, and what the
\* executeWebhookRoutes call of the processQueue invocation holding it did
processWebhook(webhookData, t, random) ==
    /\ IF webhookData = NoConfig
       THEN \* reading webhookData.source throws a TypeError, caught
            /\ ret' = Failure("processWebhook", "TypeError")
            /\ UNCHANGED <<eventQueue, nextObj>>
       ELSE IF webhookData.source = <<>> \/ webhookData.eventType = <<>>
       THEN /\ ret' = Failure("processWebhook",
                              "Invalid webhook data: source and eventType required")
            /\ UNCHANGED <<eventQueue, nextObj>>
       ELSE LET matchingRoutes == findMatchingRoutes(webhookData)
            IN  IF Len(matchingRoutes) = 0
                THEN /\ ret' = [op |-> "processWebhook", kind |-> "return",
                                success |-> TRUE, message |-> "No routes found",
                                routesMatched |-> 0]
                     /\ UNCHANGED <<eventQueue, nextObj>>
                ELSE LET queueItem ==
                             [id |-> generateEventId(t, random), webhook |-> webhookData,
                              routes |-> matchingRoutes, createdAt |-> t, attempts |-> 0,
                              obj |-> nextObj, run |-> None]
                     IN  /\ nextObj <= MaxEvents
                         /\ eventQueue' = addToQueue(eventQueue, queueItem)
                         /\ nextObj' = nextObj + 1
                         /\ ret' = [op |-> "processWebhook", kind |-> "return",
                                    success |-> TRUE, eventId |-> queueItem.id,
                                    routesMatched |-> Len(matchingRoutes)]
    /\ UNCHANGED <<regVars, monVars, fixVars, routes, processingQueue, inflight, retired>>

startQueueProcessor ==
    /\ processingQueue' = TRUE
    /\ UNCHANGED <<ret, regVars, monVars, fixVars, routes, eventQueue, inflight, nextObj, retired>>

\* The target names of a sequence of routes
Targets(rs) == [k \in DOMAIN rs |-> rs[k].target]

\* services.find(s => s.name === name) over getAllServices(): the first
\* service of that name in the registry's insertion order, or undefined
FindByName(m, name) ==
    LET hits == {s \in DOMAIN m : m[s].name = name}
    IN  IF hits = {} THEN None
        ELSE Some(m[CHOOSE s \in hits : \A u \in hits : s <= u])

executeWebhookRoutesFailsOnMissing(event) ==
    LET found(route) == FindByName(services, route.target) # None
    IN  [rejected |-> \E k \in DOMAIN event.routes : ~found(event.routes[k]),
         dispatched |-> SelectSeq(event.routes, found),
         served |-> [k \in DOMAIN event.routes |->
                        LET targetService == FindByName(services, event.routes[k].target)
                        IN  IF targetService = None THEN {}
                            ELSE {targetService[1].id}]]

executeWebhookRoutesBroadcast(event) ==
    LET found(route) == FindByName(services, route.target) # None
    IN  [rejected |-> FALSE,
         dispatched |-> SelectSeq(event.routes, found),
         served |-> [k \in DOMAIN event.routes |->
                        {services[s].id : s \in {u \in DOMAIN services :
                            services[u].name = event.routes[k].target}}]]

\* The loop of executeWebhookRoutes over event.routes, which runs to its end
\* inside the call: a route whose target is among getAllServices() by name
\* is dispatched to the service find returns, the others are skipped by
\* `continue`; nothing in the loop rejects the returned promise. served is
\* history: the services each route of the event was dispatched to
executeWebhookRoutes(event) ==
    LET found(route) == FindByName(services, route.target) # None
    IN  [rejected |-> FALSE,
         dispatched |-> SelectSeq(event.routes, found),
         served |-> [k \in DOMAIN event.routes |->
                        LET targetService == FindByName(services, event.routes[k].target)
                        IN  IF targetService = None THEN {}
                            ELSE {targetService[1].id}]]

\* The setInterval callback: processQueue up to its await
processQueueBegin ==
    /\ processingQueue
    /\ IF Len(eventQueue) = 0
       THEN UNCHANGED <<eventQueue, inflight>>
       ELSE LET event == Head(eventQueue)
            IN  /\ Len(inflight) < MaxInflight
                /\ eventQueue' = Tail(eventQueue)
                /\ inflight' = Append(inflight,
                        [event EXCEPT !.run = Some(executeWebhookRoutes(event))])
    /\ UNCHANGED <<ret, regVars, monVars, fixVars, routes, processingQueue, nextObj, retired>>

ShouldRetryInclusive(event) == event.attempts <= RetryLimit

\* event.attempts < 3
ShouldRetry(event) == event.attempts < RetryLimit

processQueueEndRetriesUnchanged(i, ok) ==
    LET event == inflight[i]
    IN  /\ inflight' = RemoveAt(inflight, i)
        /\ IF ~ok
           THEN /\ eventQueue' = Append(eventQueue, event)
                /\ UNCHANGED retired
           ELSE /\ retired' = retired \cup
                    {[obj |-> event.obj, attempts |-> event.attempts, delivered |-> ok,
                      matched |-> Targets(event.routes),
                      dispatched |-> IF event.run = None THEN <<>>
                                     ELSE Targets(event.run[1].dispatched)]}
                /\ UNCHANGED eventQueue
        /\ UNCHANGED <<ret, regVars, monVars, fixVars, routes, processingQueue, nextObj>>

\* processQueue after its await: executeWebhookRoutes(event) resolved (ok) or
\* rejected; a rejected event is pushed back while it has attempts left.
\* A call whose loop rejected cannot resolve; the delivery transport decides
\* the outcome otherwise
processQueueEnd(i, ok) ==
    LET event == inflight[i]
    IN  /\ (event.run # None /\ event.run[1].rejected) => ~ok
        /\ inflight' = RemoveAt(inflight, i)
        /\ IF ~ok /\ ShouldRetry(event)
           THEN /\ eventQueue' = Append(eventQueue, [event EXCEPT !.attempts = @ + 1])
                /\ UNCHANGED retired
           ELSE /\ retired' = retired \cup
                    {[obj |-> event.obj, attempts |-> event.attempts, delivered |-> ok,
                      matched |-> Targets(event.routes),
                      dispatched |-> IF event.run = None THEN <<>>
                                     ELSE Targets(event.run[1].dispatched)]}
                /\ UNCHANGED eventQueue
        /\ UNCHANGED <<ret, regVars, monVars, fixVars, routes, processingQueue, nextObj>>

\* The object WebhookHub.getStats returns
WebhookHubStats ==
    [totalRoutes |-> Len(routes),
     activeRoutes |-> Len(SelectSeq(routes, LAMBDA r : r.active)),
     queueSize |-> Len(eventQueue),
     maxQueueSize |-> maxQueueSize,
     processingQueue |-> processingQueue]

WebhookHubGetStats == Returns("WebhookHub.getStats", WebhookHubStats)

AddRouteIn(C, T) == \E c \in C, t \in T : addRoute(c, t)
ProcessWebhookIn(W, T, R) == \E w \in W, t \in T, r \in R : processWebhook(w, t, r)
ExecuteDone == \E i \in DOMAIN inflight, ok \in BOOLEAN : processQueueEnd(i, ok)
\* The transport delivers every dispatched route: only the loop can reject
ExecuteSettled ==
    \E i \in DOMAIN inflight :
        processQueueEnd(i, inflight[i].run = None \/ ~inflight[i].run[1].rejected)

NoContention == [n |-> 0, pending |-> 0, won |-> 0, lost |-> 0]

\* Callers of the registry, with the inputs they draw from
RegisterIn(C, T, R) ==
    /\ contention.pending = 0
    /\ \E c \in C, t \in T, r \in R : registerService(c, t, r)
    /\ UNCHANGED contention
UpdateStatusIn(T) ==
    \E id \in Ids(services) \cup {UnknownId}, t \in T,
       in \in {<<"healthy", Some([status |-> "healthy"])>>, <<"error", None>>} :
        updateServiceStatus(id, in[1], in[2], t)
\* updateServiceStatus called by any caller of the registry: the method takes
\* the status it is given, and the values a status field can hold are these
Statuses == {"registered", "healthy", "unhealthy", "error"}
UpdateStatusWith(S, T) ==
    \E id \in Ids(services), status \in S, t \in T :
        updateServiceStatus(id, status, None, t)

Unregister ==
    /\ contention.pending = 0
    /\ \E id \in Ids(services) \cup {UnknownId} : unregisterService(id)

GetService == \E id \in Ids(services) \cup {UnknownId} : getService(id)

\* n request handlers call registerService while one slot is left; the calls
\* run one after the other, in any order, and nothing else runs in between
StartContention ==
    /\ contention.pending = 0
    /\ Len(services) = maxServices - 1
    /\ \E n \in 2..MaxCallers :
          contention' = [n |-> n, pending |-> n, won |-> 0, lost |-> 0]
    /\ UNCHANGED <<services, issued, snapshot, ret, monVars, hubVars, fixVars>>

Contend ==
    /\ contention.pending > 0
    /\ \E c \in ValidConfigs, t \in Times, r \in Randoms : registerService(c, t, r)
    /\ contention' = [contention EXCEPT
            !.pending = @ - 1,
            !.won = IF ret'.success THEN @ + 1 ELSE @,
            !.lost = IF ret'.kind = "return" /\ ~ret'.success
                        /\ ret'.error = "Service registry at capacity"
                     THEN @ + 1 ELSE @]

Init ==
    /\ services = <<>>
    /\ issued = {}
    /\ contention = NoContention
    /\ snapshot = <<>>
    /\ ret = NoResult
    /\ monitoring = FALSE
    /\ monitoringInterval = NoInterval
    /\ immediates = <<>>
    /\ cycles = <<>>
    /\ healthData = <<>>
    /\ routes = <<>>
    /\ eventQueue = <<>>
    /\ processingQueue = FALSE
    /\ inflight = <<>>
    /\ nextObj = 1
    /\ retired = {}
    /\ core = None
    /\ executing = <<>>
    /\ executed = [started |-> 0, returned |-> 0, invoked |-> <<>>]

(***************************************************************************)
(* Specifications                                                          *)
(***************************************************************************)
\* The registry under its three mutating operations
NextRegistry ==
    \/ RegisterIn(Configs, Times, {"k3x9q"})
    \/ UpdateStatusIn({2})
    \/ Unregister

SpecRegistry == Init /\ [][NextRegistry]_vars

\* Registration and removal, with every timestamp and random suffix
NextIds ==
    \/ RegisterIn(ValidConfigs, Times, Randoms)
    \/ Unregister

SpecIds == Init /\ [][NextIds]_vars

\* Registration followed by lookups, with and without the optional fields
NextRoundTrip ==
    \/ RegisterIn(ValidConfigs \cup {UnflaggedConfig}, {1}, {"k3x9q"})
    \/ GetService
    \/ UpdateStatusIn({2})
    \/ Unregister

SpecRoundTrip == Init /\ [][NextRoundTrip]_vars

\* The health monitor over a registry that changes under it
NextMonitor ==
    \/ RegisterIn(ValidConfigs, {1}, {"k3x9q"})
    \/ startMonitoring
    \/ stopMonitoring
    \/ RunImmediate
    \/ IntervalTick
    \/ ManualHealthCheck
    \/ ProbeDone({Response(200, "ok"), ProbeError}, {1})
    \/ CycleDone({1})

SpecMonitor == Init /\ [][NextMonitor]_vars

\* The monitor's schedule: start, stop and the cycles they cause
NextSchedule ==
    \/ RegisterIn({Cfg(SvcA, "api", FALSE)}, {1}, {"k3x9q"})
    \/ startMonitoring
    \/ stopMonitoring
    \/ RunImmediate
    \/ IntervalTick
    \/ ProbeDone({Response(200, "ok"), ProbeError}, {1})
    \/ CycleDone({1})

SpecSchedule == Init /\ [][NextSchedule]_vars

\* The cycles of the running monitor and the order in which they write
NextOrder ==
    \/ RegisterIn({Cfg(SvcA, "api", FALSE)}, {1}, {"k3x9q"})
    \/ startMonitoring
    \/ RunImmediate
    \/ IntervalTick
    \/ ProbeDone({Response(200, "ok"), ProbeError}, Times)
    \/ CycleDoneInOrder(Times)

SpecOrder == Init /\ [][NextOrder]_vars

\* Probe cycles over a registry that gains services meanwhile
CycleOutcomes == {Response(200, "ok"), ProbeError}

NextCycle ==
    \/ RegisterIn(ValidConfigs, {1}, {"k3x9q"})
    \/ ManualHealthCheck
    \/ ProbeDone(CycleOutcomes, {2})
    \/ CycleDone({2})

SpecCycle == Init /\ [][NextCycle]_vars

\* Every outcome a probe of one service can have
NextProbe ==
    \/ RegisterIn({Cfg(SvcA, "api", FALSE)}, {1}, {"k3x9q"})
    \/ ManualHealthCheck
    \/ ProbeDone(ProbeOutcomes, Times)
    \/ CycleDone(Times)

SpecProbe == Init /\ [][NextProbe]_vars

\* The routing table and the producer path, without the consumer
NextRoutes ==
    \/ AddRouteIn(RouteConfigs, {1})
    \/ ProcessWebhookIn(Webhooks \cup BadWebhooks \cup {NoConfig}, {1}, {"k3x9q"})

SpecRoutes == Init /\ [][NextRoutes]_vars

\* The event queue between its producers and the consumer
NextHub ==
    \/ AddRouteIn({RouteCfg(Render, DeployFailed, SvcA, "POST")}, {1})
    \/ ProcessWebhookIn({Webhook(Render, DeployFailed), Webhook(Github, DeploySuccess)},
                        {1}, {"k3x9q"})
    \/ startQueueProcessor
    \/ processQueueBegin
    \/ ExecuteDone

SpecHub == Init /\ [][NextHub]_vars

\* Delivery of queued events to targets that are registered, or are not
NextDeliver ==
    \/ RegisterIn({Cfg(SvcA, "api", FALSE)}, {1}, {"k3x9q"})
    \/ AddRouteIn({RouteCfg(Render, DeployFailed, SvcA, "POST"),
                   RouteCfg(Star, DeployFailed, SvcB, "POST")}, {1})
    \/ ProcessWebhookIn({Webhook(Render, DeployFailed)}, {1}, {"k3x9q"})
    \/ startQueueProcessor
    \/ processQueueBegin
    \/ ExecuteSettled

SpecDeliver == Init /\ [][NextDeliver]_vars

\* Events queued one at a time while routes are added and services of one
\* name come and go
NextResolve ==
    \/ RegisterIn({Cfg(SvcA, "api", FALSE)}, {1}, Randoms)
    \/ Unregister
    \/ AddRouteIn({RouteCfg(Render, DeployFailed, SvcA, "POST"),
                   RouteCfg(Star, DeployFailed, SvcA, "POST")}, {1})
    \/ /\ eventQueue = <<>> /\ inflight = <<>>
       /\ ProcessWebhookIn({Webhook(Render, DeployFailed)}, {1}, {"k3x9q"})
    \/ startQueueProcessor
    \/ processQueueBegin
    \/ ExecuteSettled

SpecResolve == Init /\ [][NextResolve]_vars

\* The error fixer core under every setting of the flags and of its fixers
NextFixer ==
    \/ \E d, a, df, af \in BOOLEAN :
          ErrorFixerCoreNew([DETERMINISTIC_FIXES_ENABLED |-> d, AI_FALLBACK_ENABLED |-> a],
                            df, af)
    \/ execute
    \/ ExecuteResumeIn(FixerOutcomes)

SpecFixer == Init /\ [][NextFixer]_vars

\* Status updates and removals that arrive for a service that is gone
NextLate ==
    \/ RegisterIn({Cfg(SvcA, "api", FALSE)}, {1}, {"k3x9q"})
    \/ Unregister
    \/ UpdateStatusIn({2})
    \/ ManualHealthCheck
    \/ ProbeDone(CycleOutcomes, {2})
    \/ CycleDone({2})

SpecLate == Init /\ [][NextLate]_vars

\* A caller that holds the array of getAllServices while the registry changes
NextSnapshot ==
    \/ RegisterIn(ValidConfigs, {1}, {"k3x9q"})
    \/ getAllServices
    \/ UpdateStatusIn({2})
    \/ Unregister

SpecSnapshot == Init /\ [][NextSnapshot]_vars

\* The statistics of the registry and of the hub over their changing state
NextStats ==
    \/ RegisterIn(Configs, {1}, {"k3x9q"})
    \/ UpdateStatusIn({2})
    \/ Unregister
    \/ AddRouteIn({RouteCfg(Render, DeployFailed, SvcA, "POST"),
                   RouteCfg(Star, DeployFailed, SvcB, "POST")}, {1})
    \/ ProcessWebhookIn({Webhook(Render, DeployFailed)}, {1}, {"k3x9q"})
    \/ ServiceRegistryGetStats
    \/ WebhookHubGetStats

SpecStats == Init /\ [][NextStats]_vars

\* The read-only methods called between the operations that write
NextViews ==
    \/ RegisterIn({Cfg(SvcA, "api", FALSE)}, {1}, {"k3x9q"})
    \/ Unregister
    \/ ManualHealthCheck
    \/ ProbeDone(CycleOutcomes, {2})
    \/ CycleDone({2})
    \/ AddRouteIn({RouteCfg(Render, DeployFailed, SvcA, "POST")}, {1})
    \/ ProcessWebhookIn({Webhook(Render, DeployFailed)}, {1}, {"k3x9q"})
    \/ GetService
    \/ getAllServices
    \/ GetServicesByType
    \/ GetBigBrotherServices
    \/ ServiceRegistryGetStats
    \/ WebhookHubGetStats
    \/ getSystemHealth

SpecViews == Init /\ [][NextViews]_vars

\* The status of a service under the monitor's cycles and other callers' updates
NextStatus ==
    \/ RegisterIn({Cfg(SvcA, "api", FALSE)}, {1}, {"k3x9q"})
    \/ UpdateStatusWith(Statuses, {2})
    \/ ManualHealthCheck
    \/ ProbeDone(CycleOutcomes, {2})
    \/ CycleDone({2})

SpecStatus == Init /\ [][NextStatus]_vars

\* The registry under its own operations, the monitor and the hub together;
\* the producer sends an event when the hub has finished with the one before
NextOwnership ==
    \/ RegisterIn({Cfg(SvcA, "api", FALSE)}, {1}, {"k3x9q"})
    \/ Unregister
    \/ startMonitoring
    \/ stopMonitoring
    \/ RunImmediate
    \/ ProbeDone({ProbeError}, {2})
    \/ CycleDone({2})
    \/ AddRouteIn({RouteCfg(Render, DeployFailed, SvcA, "POST")}, {1})
    \/ /\ eventQueue = <<>> /\ inflight = <<>>
       /\ ProcessWebhookIn({Webhook(Render, DeployFailed)}, {1}, {"k3x9q"})
    \/ startQueueProcessor
    \/ processQueueBegin
    \/ ExecuteSettled

SpecOwnership == Init /\ [][NextOwnership]_vars

\* The hub with its consumer running: the processor is started when the hub
\* is initialized, its timer fires every second for as long as the process
\* lives, and a call of executeWebhookRoutes settles
NextDrain ==
    \/ AddRouteIn({RouteCfg(Render, DeployFailed, SvcA, "POST")}, {1})
    \/ ProcessWebhookIn({Webhook(Render, DeployFailed)}, {1}, {"k3x9q"})
    \/ startQueueProcessor
    \/ processQueueBegin
    \/ ExecuteDone

SpecDrain ==
    /\ Init /\ [][NextDrain]_vars
    /\ WF_vars(startQueueProcessor)
    /\ WF_vars(processQueueBegin)
    /\ WF_vars(ExecuteDone)

\* Concurrent registrations contending for the last slot
NextContend ==
    \/ RegisterIn(ValidConfigs, Times, Randoms)
    \/ Unregister
    \/ StartContention
    \/ Contend

SpecContend == Init /\ [][NextContend]_vars

(***************************************************************************)
(* Claims                                                                  *)
(***************************************************************************)
CapacityError == Failure("registerService", "Service registry at capacity")

\* C1: in every reachable state, whatever register, updateStatus and
\* unregister calls were made, the registry holds at most maxServices services.
C1_SizeWithinCapacity == Len(services) <= maxServices

\* C1 witness: a full registry after registrations, a removal and a status update.
C1_Witness ==
    /\ Len(services) = maxServices
    /\ Cardinality(issued) > maxServices
    /\ ret.op = "updateServiceStatus" /\ ret.success

\* C2: every successful register returns an id never issued before (ids of
\* unregistered services included), overwrites no registered service and
\* grows the registry by exactly one entry.
C2_FreshId ==
    [][\A c \in ValidConfigs, t \in Times, r \in Randoms :
          (registerService(c, t, r) /\ ret'.success)
              => /\ ret'.serviceId \notin issued
                 /\ Len(services') = Len(services) + 1
                 /\ \A i \in DOMAIN services : services'[i] = services[i]]_vars

\* C7: when n valid register calls contend for the one remaining slot, exactly
\* one returns success, the other n - 1 return the capacity error, and the
\* registry ends at capacity.
C7_ExactlyOneWins ==
    (contention.n > 0 /\ contention.pending = 0)
        => /\ contention.won = 1
           /\ contention.lost = contention.n - 1
           /\ Len(services) = maxServices

Live == {eventQueue[i].obj : i \in DOMAIN eventQueue} \cup {inflight[i].obj : i \in DOMAIN inflight}

\* C4: an event whose execution fails every time is re-enqueued with one more
\* attempt while it has fewer than RetryLimit, so its attempts reach RetryLimit
\* and never exceed it; the failure at RetryLimit attempts removes it, and an
\* event the consumer finished with is never queued or executed again.
C4_RetriedThreeTimes ==
    /\ [](/\ \A i \in DOMAIN eventQueue : eventQueue[i].attempts <= RetryLimit
          /\ \A i \in DOMAIN inflight : inflight[i].attempts <= RetryLimit
          /\ \A r \in retired : r.obj \notin Live /\ (~r.delivered => r.attempts = RetryLimit))
    /\ [][\A i \in DOMAIN inflight :
            processQueueEnd(i, FALSE) =>
                IF inflight[i].attempts < RetryLimit
                THEN eventQueue' = Append(eventQueue,
                         [inflight[i] EXCEPT !.attempts = inflight[i].attempts + 1])
                ELSE /\ eventQueue' = eventQueue
                     /\ \E r \in retired' : r.obj = inflight[i].obj]_vars

\* C4 witness: an event failed with RetryLimit attempts behind it and is gone.
C4_Witness ==
    \E r \in retired : ~r.delivered /\ r.attempts = RetryLimit /\ r.obj \notin Live

\* C5: while the monitor is running at most one performHealthChecks cycle is
\* in flight: a cycle never starts while the previous one's probes are out.
C5_OneCycleInFlight == monitoring => Len(cycles) <= 1

\* C6: between stop() and the next start(), no cycle that was started or
\* scheduled before the stop changes any service of the registry.
C6_NoCommitAfterStop ==
    [][\A c \in DOMAIN cycles, t \in Times :
          (~monitoring /\ cycles[c].stale /\ performHealthChecksEnd(c, t))
              => services' = services]_vars

\* C9: enqueuing into a queue that holds maxQueueSize items evicts exactly the
\* head and appends the new event at the tail, the survivors keeping their
\* order; with no dequeue, the queue holds the most recently enqueued events
\* in enqueue order.
C9_DropOldest ==
    /\ [](~processingQueue =>
            /\ Len(eventQueue) = IF nextObj - 1 < maxQueueSize THEN nextObj - 1
                                 ELSE maxQueueSize
            /\ \A i \in DOMAIN eventQueue :
                  eventQueue[i].obj = nextObj - 1 - Len(eventQueue) + i)
    /\ [][(nextObj' = nextObj + 1 /\ Len(eventQueue) = maxQueueSize) =>
            /\ Len(eventQueue') = maxQueueSize
            /\ \A i \in 1..(maxQueueSize - 1) : eventQueue'[i] = eventQueue[i + 1]
            /\ eventQueue'[maxQueueSize].obj = nextObj
            /\ eventQueue'[maxQueueSize].attempts = 0]_vars

\* C9 witness: one event more than the queue holds was enqueued, nothing was
\* dequeued, and the first event is the one missing.
C9_Witness ==
    /\ ~processingQueue
    /\ nextObj = maxQueueSize + 2
    /\ Len(eventQueue) = maxQueueSize
    /\ eventQueue[1].obj = 2

\* C10: findMatchingRoutes(event) returns exactly the routes of the table
\* that match on source and on eventType (each exactly or by wildcard) and
\* are active: none that matches on one component only, none omitted.
C10_MatchesExactly ==
    \A w \in Webhooks :
        LET got == findMatchingRoutes(w)
            Matches(route) ==
                /\ (route.source = Star \/ route.source = w.source)
                /\ (route.eventType = Star \/ route.eventType = w.eventType)
                /\ route.active
        IN  /\ \A j \in DOMAIN got : \E i \in DOMAIN routes : got[j] = routes[i]
            /\ \A i \in DOMAIN routes :
                  (\E j \in DOMAIN got : got[j] = routes[i]) <=> Matches(routes[i])
            /\ Cardinality({got[j] : j \in DOMAIN got}) = Len(got)

\* C10 witness: the table holds a route (*, deploy_failed) and a route
\* (render, *); the first is returned for render and github deploy_failed
\* events and not for a render deploy_success event.
C10_Witness ==
    /\ \E i \in DOMAIN routes : routes[i].source = Star /\ routes[i].eventType = DeployFailed
    /\ \E i \in DOMAIN routes : routes[i].source = Render /\ routes[i].eventType = Star
    /\ Len(findMatchingRoutes(Webhook(Github, DeployFailed))) = 1
    /\ Len(findMatchingRoutes(Webhook(Render, DeployFailed))) = 2
    /\ Len(findMatchingRoutes(Webhook(Render, DeploySuccess))) = 1
    /\ findMatchingRoutes(Webhook(Render, DeploySuccess))[1].eventType = Star
    /\ Len(findMatchingRoutes(Webhook(Github, DeploySuccess))) = 0

\* C8: a register call with a valid config on a registry that holds
\* maxServices entries returns the capacity error and changes nothing.
C8_FullRegistryRejects ==
    [][(Len(services) >= maxServices /\ ret'.op = "registerService") =>
          \A c \in ValidConfigs, t \in Times, r \in Randoms :
              registerService(c, t, r)
                  => (ret' = CapacityError /\ services' = services /\ issued' = issued)]_vars

\* C8 witness: the registry is full and the last register call was refused.
C8_Witness == Len(services) = maxServices /\ ret = CapacityError

\* C11: every successful addRoute call adds exactly one new route to the
\* routing table and leaves every existing route in place: a route is never
\* merged with or replaced by one that looks like it.
C11_AddsOneRoute ==
    [][\A c \in ValidRouteConfigs, t \in Times :
          (addRoute(c, t) /\ ret'.success)
              => /\ Len(routes') = Len(routes) + 1
                 /\ \A i \in DOMAIN routes : routes'[i] = routes[i]]_vars

\* C12: processWebhook on an event that k >= 1 routes match puts exactly one
\* new item at the tail of the queue (the rest being the old queue, less its
\* head when it was full), with attempts 0, exactly the k matched routes and
\* an id no queued item carries, and returns success with that id and
\* routesMatched = k.
C12_EnqueuesOneItem ==
    [][\A w \in Webhooks, t \in Times, r \in Randoms :
          (processWebhook(w, t, r) /\ Len(findMatchingRoutes(w)) >= 1)
              => /\ Len(eventQueue') >= 1
                 /\ LET item == eventQueue'[Len(eventQueue')]
                        rest == SubSeq(eventQueue', 1, Len(eventQueue') - 1)
                    IN  /\ rest = IF Len(eventQueue) >= maxQueueSize
                                  THEN Tail(eventQueue) ELSE eventQueue
                        /\ item.obj = nextObj
                        /\ item.attempts = 0
                        /\ item.webhook = w
                        /\ item.routes = findMatchingRoutes(w)
                        /\ \A i \in DOMAIN eventQueue : eventQueue[i].id # item.id
                        /\ ret'.success
                        /\ ret'.eventId = item.id
                        /\ ret'.routesMatched = Len(findMatchingRoutes(w))]_vars

\* C13: a processWebhook call returns with its event in the queue and no
\* delivery of it (or of any event) started or finished inside the call; an
\* event comes to be executed only by a tick of the started queue processor,
\* which takes it from the head of the queue.
C13_NonBlocking ==
    [][/\ \A w \in Webhooks, t \in Times, r \in Randoms :
            processWebhook(w, t, r)
                => /\ inflight' = inflight /\ retired' = retired
                   /\ ret'.op = "processWebhook" /\ ret'.kind = "return"
                   /\ nextObj' # nextObj =>
                         /\ \E i \in DOMAIN eventQueue' : eventQueue'[i].obj = nextObj
                         /\ \A i \in DOMAIN inflight' : inflight'[i].obj # nextObj
       /\ \A i \in DOMAIN inflight' :
            (\A j \in DOMAIN inflight : inflight[j] # inflight'[i])
                => /\ processingQueue
                   /\ Len(eventQueue) > 0
                   /\ inflight'[i].obj = Head(eventQueue).obj
                   /\ [inflight'[i] EXCEPT !.run = None]
                          = [Head(eventQueue) EXCEPT !.run = None]
                   /\ ret' = ret]_vars

\* C13 witness: processWebhook has returned its acknowledgment while the
\* processor is busy with an earlier event and the new event waits in the queue.
C13_Witness ==
    /\ ret.op = "processWebhook" /\ ret.success
    /\ ret.routesMatched = 1
    /\ processingQueue
    /\ Len(inflight) > 0
    /\ Len(eventQueue) > 0
    /\ eventQueue[Len(eventQueue)].obj = nextObj - 1
    /\ eventQueue[Len(eventQueue)].id = ret.eventId

\* C14: processWebhook on an event with source and eventType that no active
\* route matches returns success with routesMatched 0 and leaves the queue
\* and the routing table as they were.
C14_NoMatchNoEnqueue ==
    [][\A w \in Webhooks, t \in Times, r \in Randoms :
          (/\ processWebhook(w, t, r)
           /\ \A i \in DOMAIN routes :
                ~(/\ routes[i].active
                  /\ routes[i].source = Star \/ routes[i].source = w.source
                  /\ routes[i].eventType = Star \/ routes[i].eventType = w.eventType))
              => /\ ret'.success
                 /\ ret'.routesMatched = 0
                 /\ eventQueue' = eventQueue
                 /\ routes' = routes
                 /\ nextObj' = nextObj]_vars

\* C14 witness: routes are registered and an event is queued, and the last
\* processWebhook call matched none of the routes.
C14_Witness ==
    /\ ret.op = "processWebhook" /\ ret.success
    /\ ret.routesMatched = 0
    /\ Len(routes) > 0
    /\ Len(eventQueue) > 0

\* C15: registerService, addRoute and processWebhook called with input that
\* fails validation, or with no argument at all, return a failure result
\* (they do not throw) and leave registry, routing table and queue unchanged.
C15_InvalidInputReturnsFailure ==
    [][/\ \A c \in InvalidConfigs \cup {NoConfig}, t \in Times, r \in Randoms :
            registerService(c, t, r)
                => /\ ret'.kind = "return" /\ ~ret'.success
                   /\ services' = services
       /\ \A c \in InvalidRouteConfigs \cup {NoConfig}, t \in Times :
            addRoute(c, t)
                => /\ ret'.kind = "return" /\ ~ret'.success
                   /\ routes' = routes
       /\ \A w \in BadWebhooks \cup {NoConfig}, t \in Times, r \in Randoms :
            processWebhook(w, t, r)
                => /\ ret'.kind = "return" /\ ~ret'.success
                   /\ eventQueue' = eventQueue /\ routes' = routes]_vars

\* C16: when registerService(cfg) succeeds with an id, getService(id) returns a
\* service that carries every field the caller supplied in cfg, with the value
\* supplied; and a getService call returns the stored service, or null.
C16_RoundTrip ==
    [][/\ \A c \in ValidConfigs \cup {UnflaggedConfig}, t \in Times, r \in Randoms :
            (registerService(c, t, r) /\ ret'.success)
                => LET got == Lookup(services', ret'.serviceId)
                   IN  /\ got # None
                       /\ \A f \in DOMAIN c : f \in DOMAIN got[1] /\ got[1][f] = c[f]
       /\ \A id \in Ids(services) :
            getService(id)
                => \E i \in DOMAIN services :
                      services[i].id = id /\ ret'.value = Some(services[i])]_vars

\* C16 witness: a service registered with a capability list and a health
\* endpoint was looked up and came back with both.
C16_Witness ==
    /\ ret.op = "getService" /\ ret.success
    /\ ret.value[1].name = SvcA
    /\ "capabilities" \in DOMAIN ret.value[1]
    /\ ret.value[1].capabilities = <<"feature-flags", "error-fixing">>
    /\ ret.value[1].healthEndpoint = "/healthz"
    /\ ret.value[1].bigBrotherCompliant = FALSE
    /\ ret.value[1].status = "registered"

\* C17: at most one repeating schedule is live at any time and monitoring is
\* true exactly when one is; start() while monitoring changes nothing, and
\* start() while not monitoring (at first, or after stop()) sets monitoring,
\* schedules one immediate cycle and creates one schedule.
C17_OneSchedule ==
    /\ [](/\ monitoringInterval.live <= 1
          /\ monitoring <=> monitoringInterval.live = 1
          /\ monitoring <=> monitoringInterval.handle)
    /\ [][startMonitoring =>
            IF monitoring
            THEN UNCHANGED <<monitoring, monitoringInterval, immediates, cycles>>
            ELSE /\ monitoring'
                 /\ monitoringInterval'.live = 1
                 /\ immediates' = Append(immediates, FALSE)]_vars
    /\ [][stopMonitoring => ~monitoring' /\ monitoringInterval'.live = 0]_vars

\* C17 witness: the monitor was started, stopped and started again; the cycle
\* of the first start is still in flight and the new immediate cycle is
\* scheduled.
C17_Witness ==
    /\ monitoring
    /\ monitoringInterval.live = 1
    /\ Len(immediates) = 1 /\ ~immediates[1]
    /\ \E c \in DOMAIN cycles : cycles[c].stale

\* C18: a cycle takes one snapshot of the service list with one probe slot per
\* service of it; a probe fills its own slot once and writes nothing into the
\* registry; the cycle writes into the registry only when every probe has
\* completed, and then each service of the snapshot that is still registered
\* gets its own probe's result, every other service staying as it was.
C18_CommitAfterAllProbes ==
    /\ [](\A c \in DOMAIN cycles :
            /\ Len(cycles[c].results) = Len(cycles[c].snap)
            /\ \A i, j \in DOMAIN cycles[c].snap :
                  cycles[c].snap[i] = cycles[c].snap[j] => i = j
            /\ \A i \in DOMAIN cycles[c].results :
                  cycles[c].results[i] # Pending
                      => cycles[c].results[i].serviceId = cycles[c].snap[i])
    /\ [][(Len(cycles') > Len(cycles) /\ ManualHealthCheck) =>
            /\ services' = services
            /\ cycles'[Len(cycles')].snap = [i \in DOMAIN services |-> services[i].id]
            /\ \A i \in DOMAIN services : cycles'[Len(cycles')].results[i] = Pending]_vars
    /\ [][Len(cycles') = Len(cycles) =>
            \A c \in DOMAIN cycles :
               \A i \in DOMAIN cycles[c].snap, o \in CycleOutcomes, t \in {2} :
                  checkServiceHealth(c, i, o, t)
                      => /\ services' = services
                         /\ cycles[c].results[i] = Pending
                         /\ cycles'[c].snap = cycles[c].snap
                         /\ \A j \in DOMAIN cycles[c].snap :
                               j # i => cycles'[c].results[j] = cycles[c].results[j]]_vars
    /\ [][Len(cycles') < Len(cycles) =>
            \A c \in DOMAIN cycles, t \in {2} :
               performHealthChecksEnd(c, t)
                   => /\ \A i \in DOMAIN cycles[c].results : cycles[c].results[i] # Pending
                      /\ Len(services') = Len(services)
                      /\ \A k \in DOMAIN services :
                            IF \E i \in DOMAIN cycles[c].snap :
                                   cycles[c].snap[i] = services[k].id
                            THEN \E i \in DOMAIN cycles[c].snap :
                                   /\ cycles[c].snap[i] = services[k].id
                                   /\ services'[k].status = cycles[c].results[i].status
                                   /\ services'[k].healthData = Some(cycles[c].results[i])
                                   /\ services'[k].lastHealthCheck = Some(t)
                            ELSE services'[k] = services[k]]_vars

\* C18 witness: a cycle over two services has one probe back and one out, and
\* the registry still shows both services as registered.
C18_Witness ==
    \E c \in DOMAIN cycles :
        /\ Len(cycles[c].snap) = 2
        /\ cycles[c].results[1] # Pending
        /\ cycles[c].results[2] = Pending
        /\ Len(services) = 2
        /\ \A k \in DOMAIN services : services[k].status = "registered"

\* C19: a failed probe is recorded as that service's status 'error' and
\* changes no other probe's result, and a cycle with failed probes still
\* completes: it returns success with totalServices equal to the snapshot
\* size and every registered service of the snapshot gets its own status.
C19_FailureIsolated ==
    /\ [][Len(cycles') = Len(cycles) =>
            \A c \in DOMAIN cycles :
               \A i \in DOMAIN cycles[c].snap, t \in {2} :
                  checkServiceHealth(c, i, ProbeError, t)
                      => /\ cycles'[c].results[i].status = "error"
                         /\ Lookup(healthData', cycles[c].snap[i])[1].result.status = "error"
                         /\ \A j \in DOMAIN cycles[c].snap :
                               j # i => cycles'[c].results[j] = cycles[c].results[j]]_vars
    /\ [][Len(cycles') < Len(cycles) =>
            \A c \in DOMAIN cycles, t \in {2} :
               (/\ \E i \in DOMAIN cycles[c].results : cycles[c].results[i].status = "error"
                /\ performHealthChecksEnd(c, t))
                   => /\ ret'.success
                      /\ ret'.totalServices = Len(cycles[c].snap)
                      /\ ret'.healthyServices = Cardinality(
                             {i \in DOMAIN cycles[c].results :
                                 cycles[c].results[i].status = "healthy"})
                      /\ \A i \in DOMAIN cycles[c].snap :
                            MapHas(services, cycles[c].snap[i])
                                => MapGet(services', cycles[c].snap[i]).status
                                       = cycles[c].results[i].status]_vars

\* C19 witness: a cycle over two services ended with one probe failed and one
\* healthy; it returned success for two services and the registry shows one
\* service as error and the other as healthy.
C19_Witness ==
    /\ ret.op = "performHealthChecks" /\ ret.success
    /\ "totalServices" \in DOMAIN ret
    /\ ret.totalServices = 2
    /\ ret.healthyServices = 1
    /\ Len(services) = 2
    /\ \E k \in DOMAIN services : services[k].status = "error"
    /\ \E k \in DOMAIN services : services[k].status = "healthy"

\* C20: checkServiceHealth gives 'healthy' exactly to a received response with
\* an HTTP status below 500 and a body status of 'ok' or 'healthy', 'unhealthy'
\* to every other received response, and 'error' to a probe that failed.
C20_Classification ==
    [][\A c \in DOMAIN cycles :
          \A i \in DOMAIN cycles[c].snap, o \in ProbeOutcomes, t \in Times :
              checkServiceHealth(c, i, o, t)
                  => cycles'[c].results[i].status =
                        IF o.kind = "error" THEN "error"
                        ELSE IF o.http < 500 /\ o.body \in {"ok", "healthy"} THEN "healthy"
                        ELSE "unhealthy"]_vars

C22_MissingTargetSkipped ==
    [][/\ Len(inflight') = Len(inflight) + 1 =>
            LET e == inflight'[Len(inflight')]
                registered(route) ==
                    \E s \in DOMAIN services : services[s].name = route.target
            IN  /\ e.run # None
                /\ ~e.run[1].rejected
                /\ e.run[1].dispatched = SelectSeq(e.routes, registered)
       /\ \A i \in DOMAIN inflight :
            (/\ processQueueEnd(i, TRUE)
             /\ Len(inflight[i].run[1].dispatched) < Len(inflight[i].routes))
                => /\ eventQueue' = eventQueue
                   /\ \A k \in DOMAIN inflight' : inflight'[k].obj # inflight[i].obj
                   /\ \E r \in retired' :
                         /\ r.obj = inflight[i].obj
                         /\ r.delivered
                         /\ r.attempts = inflight[i].attempts]_vars

\* C22 witness: an event matched a route to an unregistered target and then a
\* route to a registered one; it was delivered at its first attempt with the
\* second route dispatched.
C22_Witness ==
    \E r \in retired :
        /\ r.delivered /\ r.attempts = 0
        /\ r.matched = <<SvcB, SvcA>>
        /\ r.dispatched = <<SvcA>>

\* C23: updateStatus and unregister on an id that is not in the registry
\* return the not-found failure and leave the registry unchanged, and the end
\* of a probe cycle does not bring back a service of its snapshot that was
\* unregistered while the probes were out.
C23_UnknownIdNotFound ==
    [][/\ ret'.op = "updateServiceStatus" =>
            \A id \in (issued \cup {UnknownId}) \ Ids(services), t \in {2} :
               \A in \in {<<"healthy", Some([status |-> "healthy"])>>, <<"error", None>>} :
                  updateServiceStatus(id, in[1], in[2], t)
                      => /\ ret' = Failure("updateServiceStatus", "Service not found")
                         /\ services' = services
       /\ ret'.op = "unregisterService" =>
            \A id \in (issued \cup {UnknownId}) \ Ids(services) :
               unregisterService(id)
                   => /\ ret' = Failure("unregisterService", "Service not found")
                      /\ services' = services
       /\ Len(cycles') < Len(cycles) =>
            \A c \in DOMAIN cycles, t \in {2} :
               performHealthChecksEnd(c, t)
                   => /\ Ids(services') = Ids(services)
                      /\ Len(services') = Len(services)]_vars

\* C23 witness: a cycle over one service has ended after the service was
\* unregistered; its result is in the monitor's store and the registry is empty.
C23_Witness ==
    /\ ret.op = "performHealthChecks" /\ ret.success
    /\ "totalServices" \in DOMAIN ret
    /\ ret.totalServices = 1
    /\ services = <<>>
    /\ Len(healthData) = 1

\* C24: updateStatus(id, status, healthResult) on a registered id is an
\* idempotent upsert: afterwards the service has that status, that
\* healthResult as its last health result (an absent one included) and its
\* lastHealthCheck set, no other service has changed, and the same call
\* applied again leaves the registry as it is.
C24_IdempotentUpsert ==
    [][ret'.op = "updateServiceStatus" =>
          \A id \in Ids(services), t \in {2} :
             \A in \in {<<"healthy", Some([status |-> "healthy"])>>, <<"error", None>>} :
                updateServiceStatus(id, in[1], in[2], t)
                    => LET u == MapGet(services', id)
                       IN  /\ u.status = in[1]
                           /\ u.healthData = in[2]
                           /\ u.lastHealthCheck = Some(t)
                           /\ Len(services') = Len(services)
                           /\ \A i \in DOMAIN services :
                                 services[i].id # id => services'[i] = services[i]
                           /\ StatusUpdated(services', id, in[1], in[2], t) = services']_vars

\* C24 as amended: updateStatus on a registered id sets the status and
\* lastHealthCheck, sets the last health result to healthResult when one is
\* given and keeps the stored one when healthResult is absent, changes no
\* other service, and the same call applied again leaves the registry as it is.
C24_UpsertKeepsResult ==
    [][ret'.op = "updateServiceStatus" =>
          \A id \in Ids(services), t \in {2} :
             \A in \in {<<"healthy", Some([status |-> "healthy"])>>, <<"error", None>>} :
                updateServiceStatus(id, in[1], in[2], t)
                    => LET u == MapGet(services', id)
                       IN  /\ u.status = in[1]
                           /\ u.healthData = IF in[2] # None THEN in[2]
                                             ELSE MapGet(services, id).healthData
                           /\ u.lastHealthCheck = Some(t)
                           /\ Len(services') = Len(services)
                           /\ \A i \in DOMAIN services :
                                 services[i].id # id => services'[i] = services[i]
                           /\ StatusUpdated(services', id, in[1], in[2], t) = services']_vars

\* C24 witness: a service that had a health result was updated to 'error'
\* with no health result, and still carries the earlier result.
C24_Witness ==
    /\ ret.op = "updateServiceStatus" /\ ret.success
    /\ \E i \in DOMAIN services :
          /\ services[i].id = ret.service
          /\ services[i].status = "error"
          /\ services[i].healthData = Some([status |-> "healthy"])

\* C25: list() returns the services in insertion order as a copy: the
\* sequence a caller holds shows the services as they were when it was
\* returned, and no later register, updateStatus or unregister changes it.
C25_ListIsACopy ==
    [][/\ ret'.op = "getAllServices" =>
            [k \in DOMAIN snapshot' |-> snapshot'[k].value] = services
       /\ ret'.op \in {"registerService", "updateServiceStatus", "unregisterService"} =>
            [k \in DOMAIN snapshot' |-> snapshot'[k].value]
                = [k \in DOMAIN snapshot |-> snapshot[k].value]]_vars

\* C27: unregister(id) on a registered id removes exactly that service and
\* returns it: afterwards get(id) finds nothing, the other services are as
\* they were and in their order, the registry is one smaller, and a valid
\* register call made next succeeds, also when the registry was full before.
C27_UnregisterRemovesOne ==
    [][/\ ret'.op = "unregisterService" =>
            \A id \in Ids(services) :
               unregisterService(id)
                   => /\ ret'.success
                      /\ ret'.removedService = MapGet(services, id)
                      /\ Lookup(services', id) = None
                      /\ services' = SelectSeq(services, LAMBDA s : s.id # id)
                      /\ Len(services') = Len(services) - 1
       /\ (ret.op = "unregisterService" /\ ret.success /\ ret'.op = "registerService") =>
            \A c \in ValidConfigs, t \in Times, r \in {"k3x9q"} :
               registerService(c, t, r)
                   => /\ ret'.success
                      /\ MapHas(services', ret'.serviceId)]_vars

\* C27 witness: the registry was full, a service was unregistered and the
\* register call made next succeeded and filled the registry again.
C27_Witness ==
    /\ ret.op = "registerService" /\ ret.success
    /\ Len(services) = maxServices
    /\ Cardinality(issued) > maxServices
    /\ \E id \in issued : ~MapHas(services, id)

C29_StatsReflectState ==
    LET r == ServiceRegistryStats
        h == WebhookHubStats
    IN  /\ r.totalServices = Len(services)
        /\ r.serviceTypes.core + r.serviceTypes.api + r.serviceTypes.middleware
              + r.serviceTypes.assistant = r.totalServices
        /\ r.bigBrotherCompliant <= r.totalServices
        /\ r.healthyServices <= r.totalServices
        /\ r.capacity.used = r.totalServices
        /\ r.capacity.used + r.capacity.available = r.capacity.max
        /\ r.capacity.max = maxServices
        /\ h.queueSize = Len(eventQueue)
        /\ h.activeRoutes <= h.totalRoutes
        /\ h.totalRoutes = Len(routes)
        /\ ret.op = "ServiceRegistry.getStats" => ret.value = r
        /\ ret.op = "WebhookHub.getStats" => ret.value = h

\* C29 witness: the registry's stats were taken of a full registry with one
\* core and one api service, one of them compliant and one healthy, while the
\* hub holds routes and queued events.
C29_Witness ==
    /\ ret.op = "ServiceRegistry.getStats"
    /\ ret.value.totalServices = maxServices
    /\ ret.value.serviceTypes.core = 1
    /\ ret.value.serviceTypes.api = 1
    /\ ret.value.bigBrotherCompliant = 1
    /\ ret.value.healthyServices = 1
    /\ ret.value.capacity.available = 0
    /\ Len(eventQueue) = maxQueueSize
    /\ Len(routes) > 0

\* C30: performHealthChecks on a registry with no services returns a success
\* result at once: it starts no probe and writes nothing to the registry or
\* to the monitor's stored results.
C30_NoServicesShortCircuit ==
    [][(Len(services) = 0 /\ ManualHealthCheck)
          => /\ ret'.op = "performHealthChecks"
             /\ ret'.kind = "return" /\ ret'.success
             /\ cycles' = cycles
             /\ services' = services
             /\ healthData' = healthData]_vars

\* C30 witness: performHealthChecks returned its no-services result on a
\* registry emptied by unregister, with the earlier result still stored.
C30_Witness ==
    /\ ret.op = "performHealthChecks" /\ ret.success
    /\ "message" \in DOMAIN ret
    /\ services = <<>>
    /\ cycles = <<>>
    /\ Len(healthData) = 1

C33_HealthWithinTotal ==
    LET h == SystemHealth
    IN  /\ \A i \in DOMAIN healthData : MapHas(services, healthData[i].id)
        /\ h.stats.healthyServices + h.stats.unhealthyServices + h.stats.errorServices
              <= h.stats.totalServices

\* C34: health results are never committed out of order: a cycle that writes
\* its result for a service s to the registry was not started before a cycle
\* whose result for s is already written.
C34_InOrderCommit ==
    [][Len(cycles') < Len(cycles) =>
          \A c \in DOMAIN cycles, t \in Times :
             performHealthChecksCommit(c, t, RemoveAt(Overtake(cycles, c, services), c))
                 => \A i \in DOMAIN cycles[c].snap :
                       MapHas(services, cycles[c].snap[i])
                           => cycles[c].snap[i] \notin cycles[c].overtaken]_vars

\* C35: with the consumer ticking and the producers silent in the end, every
\* event that was enqueued eventually leaves the hub (delivered, dropped at
\* the retry limit or evicted), and the queue eventually is empty and stays
\* empty: no event is re-enqueued forever.  From some point on no event is
\* queued or being executed, so every event has left by then.
C35_QueueDrains == <>[](eventQueue = <<>> /\ inflight = <<>>)

\* C35 witness: the producers have sent all their events, the queue is empty
\* with nothing being executed, and of the events one was delivered, one was
\* dropped at the retry limit and one was evicted by overflow.
C35_Witness ==
    /\ nextObj = MaxEvents + 1
    /\ eventQueue = <<>> /\ inflight = <<>>
    /\ \E r \in retired : r.delivered
    /\ \E r \in retired : ~r.delivered /\ r.attempts = RetryLimit
    /\ Cardinality({r.obj : r \in retired}) < MaxEvents

\* C36: each event id is in the queue at most once at any time: an event whose
\* execution resolved is removed and not re-enqueued, a failed event with fewer
\* than RetryLimit attempts is re-enqueued exactly once, at the tail, with one
\* attempt more, and an event that left the hub (delivered, exhausted or
\* evicted) never reappears.
C36_AtMostOncePerId ==
    /\ [](\A i, j \in DOMAIN eventQueue :
              eventQueue[i].id = eventQueue[j].id => i = j)
    /\ [][/\ \A o \in 1..MaxEvents : (o < nextObj /\ o \notin Live) => o \notin Live'
          /\ \A i \in DOMAIN inflight :
               /\ processQueueEnd(i, TRUE) =>
                     /\ eventQueue' = eventQueue
                     /\ inflight[i].obj \notin Live'
               /\ (processQueueEnd(i, FALSE) /\ inflight[i].attempts < RetryLimit) =>
                     eventQueue' = Append(eventQueue,
                         [inflight[i] EXCEPT !.attempts = inflight[i].attempts + 1])]_vars

\* C37: the routes of a queued event are those matched when processWebhook
\* enqueued it, and no later step changes them while the hub holds the event;
\* an execution attempt resolves each of these routes by name against the
\* registry as it is then: a route is dispatched exactly when a service of
\* its target name is registered at that moment, and to one service only,
\* however many services carry the name.
C37_RoutesFixedTargetsLate ==
    [][/\ \A w \in Webhooks, t \in Times, r \in Randoms :
            (processWebhook(w, t, r) /\ nextObj' # nextObj)
                => eventQueue'[Len(eventQueue')].routes = findMatchingRoutes(w)
       /\ \A i \in DOMAIN eventQueue, j \in DOMAIN eventQueue' :
            eventQueue[i].obj = eventQueue'[j].obj
                => eventQueue[i].routes = eventQueue'[j].routes
       /\ \A i \in DOMAIN eventQueue, j \in DOMAIN inflight' :
            eventQueue[i].obj = inflight'[j].obj
                => eventQueue[i].routes = inflight'[j].routes
       /\ Len(inflight') = Len(inflight) + 1 =>
            LET e == inflight'[Len(inflight')]
                named(k) == {services[s].id : s \in {u \in DOMAIN services :
                                services[u].name = e.routes[k].target}}
            IN  /\ e.run # None
                /\ \A k \in DOMAIN e.routes :
                      /\ Cardinality(e.run[1].served[k]) <= 1
                      /\ e.run[1].served[k] \subseteq named(k)
                      /\ named(k) # {} => e.run[1].served[k] # {}
                /\ e.run[1].dispatched =
                      SelectSeq(e.routes, LAMBDA route :
                          \E s \in DOMAIN services : services[s].name = route.target)]_vars

\* C37 witness: the only event was enqueued with one matched route, a second
\* matching route was added and a service of the target name registered after
\* that, and the execution dispatched the one route to that service.
C37_Witness ==
    /\ nextObj = 2
    /\ ret.op = "registerService" /\ ret.kind = "return" /\ ret.success
    /\ \E i \in DOMAIN inflight :
          /\ inflight[i].run # None
          /\ Len(inflight[i].routes) = 1
          /\ Len(findMatchingRoutes(inflight[i].webhook)) = 2
          /\ inflight[i].run[1].served[1] = {ret.serviceId}
          /\ Len(inflight[i].run[1].dispatched) = 1

\* The fixers an execute invocation called, in order, form the cascade: the
\* AI fixer comes second, behind a deterministic attempt that returned
\* without success, or first when the deterministic fixes are disabled
Cascade(invoked, flags) ==
    \A k \in DOMAIN invoked :
        invoked[k].fixer = "aiFixer" =>
            IF flags.DETERMINISTIC_FIXES_ENABLED
            THEN /\ k = 2
                 /\ invoked[1] = [fixer |-> "deterministicFixer", outcome |-> "failure"]
            ELSE k = 1

\* The sum of the three counters of ErrorFixerCore.stats
StatsTotal(stats) == stats.deterministicFixes + stats.aiFixes + stats.failures

====
